---- MODULE Spec2Model ----
(***************************************************************************)
(* Tag lifecycle, context store and entity auto-linking of                 *)
(* core/observables/observable.py (class Observable), for one observable   *)
(* document shared by several writers.  Every store round trip             *)
(* (modify / update / save / reload) is one atomic step; a method is the   *)
(* sequence of its round trips, so that calls of different writers         *)
(* interleave exactly where the store lets them.                           *)
(***************************************************************************)
EXTENDS Integers, Sequences, FiniteSets, TLC

\* ------------------------------------------------------------------ bounds
\* The last instant of the clock.
MaxTime == 2
\* Calls one writer alone makes.
MaxOps == 3
\* Calls concurrent writers make between them.
MaxConcOps == 2

\* --------------------------------------------------------------- constants
\* Python's None for a timestamp or a timedelta (durations are >= 1 here).
None == -1

Procs == {1, 2}

\* The writer of the specifications in which one writer works alone.
W == CHOOSE p \in Procs : \A q \in Procs : p <= q

\* Tag names are strings of characters, so that strip() is computed.
A == <<"a">>
B == <<"b">>
C == <<"c">>
D == <<"d">>
Legacy == <<"l">>
Blank == <<" ">>
PadA == <<" ", "a">>

\* What callers pass as one raw tag name.
RawNames == {A, B, C, D, Legacy, Blank, PadA}

\* The new_tags argument of tag(): one name, or two.
TagInputs ==
    {<<A>>, <<B>>, <<D>>, <<Legacy>>, <<Blank>>, <<PadA>>, <<B, A>>,
     <<Blank, C>>}

\* The (strict, expiration) arguments of tag().
TagOptions == {<<FALSE, None>>, <<FALSE, 1>>, <<TRUE, None>>}

\* The names untag() and change_tag() are called with: names of catalog tags.
TagNames == {A, B, C}

\* The same arguments for writers whose calls overlap.
ConcTagInputs == {<<A>>, <<B>>, <<Legacy>>}

ConcTagOptions == {<<FALSE, None>>, <<TRUE, None>>}

ConcTagNames == {B, C}

\* ----------------------------------------------------------------- catalog
\* Tag documents present before the first call (Tag.objects).
InitialTags == {A, B, C}

\* Tag.produces: the tags implied by a tag.  A chain (A, B, C) and cycles
\* (B and C produce each other, C produces itself).
Produces(n) ==
    IF n = A THEN <<B>>
    ELSE IF n = B THEN <<C>>
    ELSE IF n = C THEN <<B, C>>
    ELSE <<>>

\* Tag.replaces: the deprecated names a tag stands for.
Replaces(n) ==
    IF n = B THEN {Legacy} ELSE {}

\* Tag.default_expiration (None for a tag created on the fly).
DefaultExpiration(n) ==
    IF n = B THEN 1 ELSE None

\* Entity documents and their declared tags (Entity.tags).
Entities == {"e1"}

EntityTags(e) == {B}

\* ------------------------------------------------------------ pure helpers
Range(s) == {s[i] : i \in 1..Len(s)}

\* Python truthiness of an optional duration: None and timedelta(0) are false.
Truthy(x) == x # None /\ x # 0

RECURSIVE LStrip(_)
LStrip(s) ==
    IF s = <<>> THEN s
    ELSE IF Head(s) = " " THEN LStrip(Tail(s)) ELSE s

RECURSIVE RStrip(_)
RStrip(s) ==
    IF s = <<>> THEN s
    ELSE IF s[Len(s)] = " " THEN RStrip(SubSeq(s, 1, Len(s) - 1)) ELSE s

\* str.strip()
Strip(s) == RStrip(LStrip(s))

\* Tag.clean(): the normalised name.
Clean(s) == Strip(s)

Names(ts) == {ts[i].name : i \in 1..Len(ts)}

HasName(ts, n) == n \in Names(ts)

\* Index of the first element named n (the element the positional $ updates).
FirstIdx(ts, n) ==
    CHOOSE i \in 1..Len(ts) :
        /\ ts[i].name = n
        /\ \A j \in 1..(i - 1) : ts[j].name # n

\* pull__tags__name=n: every element named n is removed.
PullName(ts, n) == SelectSeq(ts, LAMBDA e : e.name # n)

\* ObservableTag(name=n, expiration=e): fresh, first_seen = last_seen = now.
ObservableTag(n, e, t) ==
    [name |-> n, first_seen |-> t, last_seen |-> t, expiration |-> e,
     fresh |-> TRUE]

\* Mutant: the refresh forgets last_seen.
RefreshTag_KeepLastSeen(ts, n, t) ==
    [ts EXCEPT ![FirstIdx(ts, n)] = [@ EXCEPT !.fresh = TRUE]]

\* Mutant: the refresh forgets fresh.
RefreshTag_KeepFresh(ts, n, t) ==
    [ts EXCEPT ![FirstIdx(ts, n)] = [@ EXCEPT !.last_seen = t]]

\* set__tags__S__fresh=True, set__tags__S__last_seen=now on the first match.
RefreshTag(ts, n, t) ==
    [ts EXCEPT ![FirstIdx(ts, n)] = [@ EXCEPT !.fresh = TRUE, !.last_seen = t]]

\* Tag.objects.get(replaces=name), else Tag.get_or_create(name=name).
AliasTargets(ex, n) == {t \in ex : n \in Replaces(t)}

\* Mutant: the aliases are not looked up.
Canonical_NoAlias(ex, n) == n

Canonical(ex, n) ==
    IF AliasTargets(ex, n) # {} THEN CHOOSE t \in AliasTargets(ex, n) : TRUE
    ELSE n

\* Mutant: the tag itself goes first.
ExtraTags_TagFirst(t) == <<t>> \o Produces(t)

\* Mutant: what the produced tags produce is applied too.
RECURSIVE ProducedBy(_)
ProducedBy(ts) ==
    IF ts = <<>> THEN <<>> ELSE Produces(Head(ts)) \o ProducedBy(Tail(ts))

ExtraTags_TwoHops(t) == Produces(t) \o ProducedBy(Produces(t)) \o <<t>>

\* tag.produces + [tag]
ExtraTags(t) == Produces(t) \o <<t>>

\* ------------------------------------------------------------------- state
VARIABLES
    now,          \* the last reading of datetime.utcnow()
    tags,         \* the stored document's tags list
    last_tagged,  \* the stored document's last_tagged
    context,      \* the stored document's context list
    links,        \* number of 'Tagged' edges from the observable to each entity
    exists,       \* names of the Tag documents
    count,        \* Tag.count
    pc,           \* where each writer is in its call
    self,         \* each writer's in-memory document (tags, last_tagged)
    loc,          \* each writer's local variables
    call,         \* each writer's current (or last completed) call
    prev,         \* each writer's call before that
    left          \* calls the writers may still begin

vars ==
    <<now, tags, last_tagged, context, links, exists, count, pc, self, loc,
      call, prev, left>>

store == <<tags, last_tagged, context, links, exists, count>>

LocInit ==
    [names |-> <<>>, strict |-> FALSE, expiration |-> None, remove |-> {},
     tagged |-> FALSE, extra |-> <<>>, ents |-> <<>>, old |-> <<>>,
     new |-> <<>>, ctx |-> <<>>, rs |-> <<>>, dirty |-> {}]

CallInit ==
    [op |-> "none", names |-> <<>>, strict |-> FALSE, exp |-> None,
     old |-> <<>>, new |-> <<>>, ctx |-> <<>>, rs |-> <<>>, t0 |-> 0,
     pre |-> <<>>, prectx |-> <<>>, failed |-> FALSE, result |-> {}]

PrevInit == [op |-> "none", names |-> <<>>]

\* A new observable: no tag, no context, no edge.
Fresh ==
    /\ now = 0
    /\ tags = <<>>
    /\ last_tagged = None
    /\ context = <<>>
    /\ links = [e \in Entities |-> 0]
    /\ exists = InitialTags
    /\ count = [n \in InitialTags |-> 0]
    /\ pc = [p \in Procs |-> "idle"]
    /\ self = [p \in Procs |-> [tags |-> <<>>, last_tagged |-> None]]
    /\ loc = [p \in Procs |-> LocInit]
    /\ call = [p \in Procs |-> CallInit]
    /\ prev = [p \in Procs |-> PrevInit]

\* datetime.utcnow(): a reading is never before the last one.
Readings == now..MaxTime

\* A call begins: the call record keeps its arguments and the stored state.
BeginCall(p, c) ==
    /\ pc[p] = "idle"
    /\ left > 0
    /\ left' = left - 1
    /\ prev' = [prev EXCEPT ![p] =
                   [op |-> call[p].op, names |-> call[p].names]]
    /\ call' = [call EXCEPT ![p] =
                   [c EXCEPT !.t0 = now, !.pre = tags, !.prectx = context]]

\* A call returns.
EndCall(p) ==
    /\ UNCHANGED call
    /\ loc' = [loc EXCEPT ![p] = LocInit]
    /\ pc' = [pc EXCEPT ![p] = "idle"]

\* Document.modify() that matched, and reload(): the in-memory document is
\* replaced by the stored one.
Loaded(ts, lt) == [tags |-> ts, last_tagged |-> lt]

\* ------------------------------------------------------------------- tag()
\* Where tag() goes once the names are used up: the update of last_tagged
\* when a name was applied, else the final reload.  (Mutant first: the
\* update is made whether or not a name was applied.)
AfterNames_AlwaysUpdate(l) ==
    IF l.names # <<>> THEN "t_name" ELSE "t_update"

AfterNames(l) ==
    IF l.names # <<>> THEN "t_name"
    ELSE IF l.tagged THEN "t_update" ELSE "t_reload"

\* Where tag() goes once the extra tags of one name are used up.
AfterExtra(l) ==
    IF l.extra # <<>> THEN "t_refresh" ELSE AfterNames(l)

\* Mutant: strict removes nothing.
StrictRemove_None(ts, names) == {}

\* With strict, the names to remove: those of the in-memory document that
\* are not among new_tags as given.
StrictRemove(ts, names) == Names(ts) \ Range(names)

\* new_tags = iterify(new_tags); if strict: remove = ...
TagBegin(p, names, strict, expiration) ==
    /\ BeginCall(p, [CallInit EXCEPT !.op = "tag", !.names = names,
                                     !.strict = strict, !.exp = expiration])
    /\ LET rem == IF strict THEN StrictRemove(self[p].tags, names) ELSE {}
           l == [LocInit EXCEPT !.names = names, !.strict = strict,
                                !.expiration = expiration, !.remove = rem]
       IN /\ loc' = [loc EXCEPT ![p] = l]
          /\ pc' = [pc EXCEPT ![p] =
                       IF rem # {} THEN "t_pull" ELSE AfterNames(l)]
    /\ UNCHANGED <<now, store, self>>

\* self.modify(pull__tags__name=tag) for one tag of the remove set.
TagPull(p) ==
    /\ pc[p] = "t_pull"
    /\ \E n \in loc[p].remove :
        LET l == [loc[p] EXCEPT !.remove = @ \ {n}]
        IN /\ tags' = PullName(tags, n)
           /\ self' = [self EXCEPT ![p] = Loaded(tags', last_tagged)]
           /\ loc' = [loc EXCEPT ![p] = l]
           /\ pc' = [pc EXCEPT ![p] =
                        IF l.remove # {} THEN "t_pull" ELSE AfterNames(l)]
    /\ UNCHANGED <<now, last_tagged, context, links, exists, count, call,
                   prev, left>>

\* Entity.objects(tags__in=[tag.name])
MatchingEntities(t) ==
    LET S == {e \in Entities : t \in EntityTags(e)}
    IN IF S = {} THEN <<>> ELSE <<CHOOSE e \in S : TRUE>>

\* if not expiration: expiration = tag.default_expiration
EffectiveExpiration(expiration, t) ==
    IF Truthy(expiration) THEN expiration ELSE DefaultExpiration(t)

\* One turn of "for new_tag in new_tags": a blank name is skipped; any other
\* is cleaned and resolved to its catalog tag, which is created when absent.
TagName(p) ==
    /\ pc[p] = "t_name"
    /\ LET raw == Head(loc[p].names)
           rest == Tail(loc[p].names)
       IN IF Strip(raw) = <<>>
          THEN LET l == [loc[p] EXCEPT !.names = rest]
               IN /\ loc' = [loc EXCEPT ![p] = l]
                  /\ pc' = [pc EXCEPT ![p] = AfterNames(l)]
                  /\ UNCHANGED <<exists, count>>
          ELSE LET t == Canonical(exists, Clean(raw))
                   l == [loc[p] EXCEPT
                            !.names = rest,
                            !.tagged = TRUE,
                            !.expiration = EffectiveExpiration(@, t),
                            !.extra = ExtraTags(t),
                            !.ents = MatchingEntities(t)]
               IN /\ exists' = exists \cup {t}
                  /\ count' = IF t \in exists THEN count
                              ELSE [n \in exists \cup {t} |->
                                       IF n = t THEN 0 ELSE count[n]]
                  /\ loc' = [loc EXCEPT ![p] = l]
                  /\ pc' = [pc EXCEPT ![p] =
                               IF l.ents # <<>> THEN "t_clean"
                               ELSE AfterExtra(l)]
    /\ UNCHANGED <<now, tags, last_tagged, context, links, self, call, prev,
                   left>>

\* active_link_to(e, 'Tagged', 'tags', clean_old=True), first half: the
\* edges of that type between the two endpoints are removed.
CleanOld(n) == n - n

LinkClean(p) ==
    /\ pc[p] = "t_clean"
    /\ LET e == Head(loc[p].ents)
       IN links' = [links EXCEPT ![e] = CleanOld(@)]
    /\ pc' = [pc EXCEPT ![p] = "t_insert"]
    /\ UNCHANGED <<now, tags, last_tagged, context, exists, count, self, loc,
                   call, prev, left>>

\* active_link_to, second half: the new edge is inserted.
LinkInsert(p) ==
    /\ pc[p] = "t_insert"
    /\ LET e == Head(loc[p].ents)
           l == [loc[p] EXCEPT !.ents = Tail(@)]
       IN /\ links' = [links EXCEPT ![e] = @ + 1]
          /\ loc' = [loc EXCEPT ![p] = l]
          /\ pc' = [pc EXCEPT ![p] =
                       IF l.ents # <<>> THEN "t_clean" ELSE AfterExtra(l)]
    /\ UNCHANGED <<now, tags, last_tagged, context, exists, count, self,
                   call, prev, left>>

\* if not self.modify({"tags__name": tag.name}, set__tags__S__fresh=True,
\*                    set__tags__S__last_seen=datetime.utcnow())
TagRefresh(p) ==
    /\ pc[p] = "t_refresh"
    /\ LET t == Head(loc[p].extra)
           l == [loc[p] EXCEPT !.extra = Tail(@)]
       IN IF HasName(tags, t)
          THEN /\ \E r \in Readings :
                    /\ now' = r
                    /\ tags' = RefreshTag(tags, t, r)
               /\ self' = [self EXCEPT ![p] = Loaded(tags', last_tagged)]
               /\ loc' = [loc EXCEPT ![p] = l]
               /\ pc' = [pc EXCEPT ![p] = AfterExtra(l)]
          ELSE /\ pc' = [pc EXCEPT ![p] = "t_push"]
               /\ UNCHANGED <<now, tags, self, loc>>
    /\ UNCHANGED <<last_tagged, context, links, exists, count, call, prev,
                   left>>

\* self.modify(push__tags=ObservableTag(name=tag.name, expiration=expiration))
TagPush(p) ==
    /\ pc[p] = "t_push"
    /\ \E r \in Readings :
        /\ now' = r
        /\ tags' = Append(tags,
                          ObservableTag(Head(loc[p].extra),
                                        loc[p].expiration, r))
    /\ self' = [self EXCEPT ![p] = Loaded(tags', last_tagged)]
    /\ pc' = [pc EXCEPT ![p] = "t_inc"]
    /\ UNCHANGED <<last_tagged, context, links, exists, count, loc, call,
                   prev, left>>

\* tag.modify(inc__count=1)
TagInc(p) ==
    /\ pc[p] = "t_inc"
    /\ LET t == Head(loc[p].extra)
           l == [loc[p] EXCEPT !.extra = Tail(@)]
       IN /\ count' = [count EXCEPT ![t] = @ + 1]
          /\ loc' = [loc EXCEPT ![p] = l]
          /\ pc' = [pc EXCEPT ![p] = AfterExtra(l)]
    /\ UNCHANGED <<now, tags, last_tagged, context, links, exists, self, call,
                   prev, left>>

\* if tagged: self.update(set__last_tagged=datetime.utcnow())
TagUpdate(p) ==
    /\ pc[p] = "t_update"
    /\ \E r \in Readings :
        /\ now' = r
        /\ last_tagged' = r
    /\ pc' = [pc EXCEPT ![p] = "t_reload"]
    /\ UNCHANGED <<tags, context, links, exists, count, self, loc, call,
                   prev, left>>

\* return self.reload()
TagReload(p) ==
    /\ pc[p] = "t_reload"
    /\ self' = [self EXCEPT ![p] = Loaded(tags, last_tagged)]
    /\ EndCall(p)
    /\ UNCHANGED <<now, store, prev, left>>

\* ----------------------------------------------------------------- untag()
UntagBegin(p, names) ==
    /\ names # <<>>
    /\ BeginCall(p, [CallInit EXCEPT !.op = "untag", !.names = names])
    /\ loc' = [loc EXCEPT ![p] = [LocInit EXCEPT !.names = names]]
    /\ pc' = [pc EXCEPT ![p] = "u_pull"]
    /\ UNCHANGED <<now, store, self>>

\* self.modify(pull__tags__name=tag) for the next name; untag() returns
\* after the last one.
UntagPull(p) ==
    /\ pc[p] = "u_pull"
    /\ tags' = PullName(tags, Head(loc[p].names))
    /\ self' = [self EXCEPT ![p] = Loaded(tags', last_tagged)]
    /\ IF Tail(loc[p].names) = <<>>
       THEN EndCall(p)
       ELSE /\ loc' = [loc EXCEPT ![p] = [@ EXCEPT !.names = Tail(@)]]
            /\ UNCHANGED <<pc, call>>
    /\ UNCHANGED <<now, last_tagged, context, links, exists, count, prev,
                   left>>

\* ------------------------------------------------------------ change_tag()
\* set__tags__S__name=new on the first element named old.
RenameTag(ts, old, new) ==
    [ts EXCEPT ![FirstIdx(ts, old)] = [@ EXCEPT !.name = new]]

\* set__tags__S__last_seen=now on the first element named n.
TouchTag(ts, n, t) ==
    [ts EXCEPT ![FirstIdx(ts, n)] = [@ EXCEPT !.last_seen = t]]

\* Mutant: the query forgets that new must be absent.
RenameMatches_OldOnly(ts, old, new) == HasName(ts, old)

\* The query {"tags__name": old, "tags__name__ne": new}.
RenameMatches(ts, old, new) == HasName(ts, old) /\ ~HasName(ts, new)

ChangeBegin(p, old, new) ==
    /\ BeginCall(p, [CallInit EXCEPT !.op = "change_tag", !.old = old,
                                     !.new = new])
    /\ loc' = [loc EXCEPT ![p] = [LocInit EXCEPT !.old = old, !.new = new]]
    /\ pc' = [pc EXCEPT ![p] = "c_rename"]
    /\ UNCHANGED <<now, store, self>>

\* if not self.modify({old present, new absent}, set__tags__S__name=new)
ChangeRename(p) ==
    /\ pc[p] = "c_rename"
    /\ IF RenameMatches(tags, loc[p].old, loc[p].new)
       THEN /\ tags' = RenameTag(tags, loc[p].old, loc[p].new)
            /\ self' = [self EXCEPT ![p] = Loaded(tags', last_tagged)]
            /\ pc' = [pc EXCEPT ![p] = "c_reload"]
       ELSE /\ pc' = [pc EXCEPT ![p] = "c_pull"]
            /\ UNCHANGED <<tags, self>>
    /\ UNCHANGED <<now, last_tagged, context, links, exists, count, loc, call,
                   prev, left>>

\* self.modify({"tags__name": old}, pull__tags__name=old)
ChangePull(p) ==
    /\ pc[p] = "c_pull"
    /\ IF HasName(tags, loc[p].old)
       THEN /\ tags' = PullName(tags, loc[p].old)
            /\ self' = [self EXCEPT ![p] = Loaded(tags', last_tagged)]
       ELSE UNCHANGED <<tags, self>>
    /\ pc' = [pc EXCEPT ![p] = "c_touch"]
    /\ UNCHANGED <<now, last_tagged, context, links, exists, count, loc, call,
                   prev, left>>

\* self.modify({"tags__name": new}, set__tags__S__last_seen=utcnow())
ChangeTouch(p) ==
    /\ pc[p] = "c_touch"
    /\ IF HasName(tags, loc[p].new)
       THEN /\ \E r \in Readings :
                 /\ now' = r
                 /\ tags' = TouchTag(tags, loc[p].new, r)
            /\ self' = [self EXCEPT ![p] = Loaded(tags', last_tagged)]
       ELSE UNCHANGED <<now, tags, self>>
    /\ pc' = [pc EXCEPT ![p] = "c_reload"]
    /\ UNCHANGED <<last_tagged, context, links, exists, count, loc, call,
                   prev, left>>

\* return self.reload()
ChangeReload(p) ==
    /\ pc[p] = "c_reload"
    /\ self' = [self EXCEPT ![p] = Loaded(tags, last_tagged)]
    /\ EndCall(p)
    /\ UNCHANGED <<now, store, prev, left>>

\* ----------------------------------------------------------- expire_tags()
\* Mutant: an entry expires at lastSeen + expiration already.
Expired_Inclusive(e, t) ==
    Truthy(e.expiration) /\ e.last_seen + e.expiration <= t

\* tag.expiration and (tag.last_seen + tag.expiration) < utcnow()
Expired(e, t) == Truthy(e.expiration) /\ e.last_seen + e.expiration < t

\* The loop over the in-memory tags: fresh = False on the expired ones.
ExpireLocal(ts, t) ==
    [i \in 1..Len(ts) |->
        IF Expired(ts[i], t) THEN [ts[i] EXCEPT !.fresh = FALSE] ELSE ts[i]]

\* The positions whose fresh field the loop changed (_changed_fields).
Changed(before, after) ==
    {i \in 1..Len(before) : before[i].fresh # after[i].fresh}

\* self.save() writes the fields that changed in memory, an element of the
\* list by its position: tags.<i>.fresh = False.  (A position past the end
\* of the stored list is left out: no operation matches the nameless
\* element the store would add there.)
SaveFresh(stored, dirty) ==
    [i \in 1..Len(stored) |->
        IF i \in dirty THEN [stored[i] EXCEPT !.fresh = FALSE] ELSE stored[i]]

\* for tag in self.tags: ... tag.fresh = False
ExpireBegin(p) ==
    /\ BeginCall(p, [CallInit EXCEPT !.op = "expire_tags"])
    /\ \E r \in Readings :
        LET mine == ExpireLocal(self[p].tags, r)
        IN /\ now' = r
           /\ self' = [self EXCEPT ![p] = [@ EXCEPT !.tags = mine]]
           /\ loc' = [loc EXCEPT ![p] =
                         [LocInit EXCEPT
                             !.dirty = Changed(self[p].tags, mine)]]
    /\ pc' = [pc EXCEPT ![p] = "e_save"]
    /\ UNCHANGED store

\* return self.save()
ExpireSave(p) ==
    /\ pc[p] = "e_save"
    /\ tags' = SaveFresh(tags, loc[p].dirty)
    /\ EndCall(p)
    /\ UNCHANGED <<now, last_tagged, context, links, exists, count, self,
                   prev, left>>

\* ------------------------------------------------------------- find_tags()
\* A dict is the set of its (key, value) pairs; a Tag document is known by
\* its name.
DictGet(m, k, d) ==
    IF \E e \in m : e[1] = k THEN (CHOOSE e \in m : e[1] = k)[2] ELSE d

DictSet(m, k, v) == {e \in m : e[1] # k} \cup {<<k, v>>}

\* for produces in tag.produces:
\*     new_tags[produces] = new_tags.get(tag, 0) + 1
RECURSIVE TallyProduces(_, _, _)
TallyProduces(m, t, ps) ==
    IF ps = <<>> THEN m
    ELSE TallyProduces(DictSet(m, Head(ps), DictGet(m, t, 0) + 1), t,
                       Tail(ps))

\* for tag in self.tags: tag = Tag.objects.get(name=tag.name); ...
RECURSIVE Tally(_, _)
Tally(m, ts) ==
    IF ts = <<>> THEN m
    ELSE Tally(TallyProduces(m, Head(ts).name, Produces(Head(ts).name)),
               Tail(ts))

\* "remove already known tags": the keys that name a tag of the in-memory
\* document are popped.
PopKnown(m, ts) == {e \in m : e[1] \notin Names(ts)}

\* find_tags() reads the in-memory tags and the catalog and writes nothing;
\* Tag.objects.get raises DoesNotExist for a name the catalog lacks.
FindTags(p) ==
    LET ts == self[p].tags
        ok == Names(ts) \subseteq exists
    IN /\ BeginCall(p, [CallInit EXCEPT
                           !.op = "find_tags",
                           !.failed = ~ok,
                           !.result = IF ok THEN PopKnown(Tally({}, ts), ts)
                                      ELSE {}])
       /\ UNCHANGED <<now, store, pc, self, loc>>

\* ----------------------------------------------------------- add_context()
\* A context is a dict, kept as the sequence of its (key, value) pairs in
\* insertion order: the store compares documents field by field in order.
KeyOrder == <<"first_seen", "ip", "source">>

KeyRank(k) == CHOOSE i \in 1..Len(KeyOrder) : KeyOrder[i] = k

Keys(c) == {c[i][1] : i \in 1..Len(c)}

Get(c, k) == LET i == CHOOSE j \in 1..Len(c) : c[j][1] = k IN c[i][2]

\* Insertion of one pair into a sequence sorted by key.
RECURSIVE InsertSorted(_, _)
InsertSorted(kv, c) ==
    IF c = <<>> THEN <<kv>>
    ELSE IF KeyRank(kv[1]) <= KeyRank(Head(c)[1]) THEN <<kv>> \o c
    ELSE <<Head(c)>> \o InsertSorted(kv, Tail(c))

RECURSIVE SortPairs(_)
SortPairs(c) ==
    IF c = <<>> THEN <<>> ELSE InsertSorted(Head(c), SortPairs(Tail(c)))

\* Mutant: the pairs stay in the order given.
SortContext_Unsorted(c) == c

\* {k: v for k, v in sorted(context.items(), key=operator.itemgetter(0))}
SortContext(c) == SortPairs(c)

\* Mutant: the pull removes nothing.
PullSource_Keep(cs, s) == cs

\* pull__context__source=s
PullSource(cs, s) ==
    SelectSeq(cs, LAMBDA c : ~("source" \in Keys(c) /\ Get(c, "source") = s))

\* Mutant: one update replaces the entries of the new entry's source (the
\* set__context__S the comment of line 145 gave up).
AddToSet_Replace(cs, c) ==
    IF c \in Range(cs) THEN cs
    ELSE Append(SelectSeq(cs, LAMBDA x : Get(x, "source") # Get(c, "source")),
                c)

\* add_to_set__context=c
AddToSet(cs, c) == IF c \in Range(cs) THEN cs ELSE Append(cs, c)

\* The context arguments callers pass, in either key order; one has an
\* empty source, and the last one lacks its source.
ContextInputs ==
    {<<<<"source", "feedA">>, <<"ip", "1">>>>,
     <<<<"ip", "1">>, <<"source", "feedA">>>>,
     <<<<"source", "feedA">>, <<"ip", "2">>>>,
     <<<<"ip", "1">>, <<"source", "feedB">>>>,
     <<<<"ip", "1">>, <<"source", "">>>>,
     <<<<"ip", "1">>>>}

\* The replace_source arguments: <<>> is None, <<s>> is the string s.
ReplaceSources == {<<>>, <<"">>, <<"feedA">>}

\* if replace_source: None and the empty string are false.
Replacing(rs) == rs # <<>> /\ rs[1] # ""

\* Mutant: the assertion is compiled away.
HasSource_Unchecked(c) == TRUE

\* 'source' in context
HasSource(c) == "source" \in Keys(c)

\* assert 'source' in context; the sorted copy replaces the argument.
ContextBegin(p, c, rs) ==
    /\ IF HasSource(c)
       THEN /\ BeginCall(p, [CallInit EXCEPT !.op = "add_context", !.ctx = c,
                                             !.rs = rs])
            /\ loc' = [loc EXCEPT ![p] =
                          [LocInit EXCEPT !.ctx = SortContext(c), !.rs = rs]]
            /\ pc' = [pc EXCEPT ![p] =
                         IF Replacing(rs) THEN "a_pull" ELSE "a_add"]
       ELSE /\ BeginCall(p, [CallInit EXCEPT !.op = "add_context", !.ctx = c,
                                             !.rs = rs, !.failed = TRUE])
            /\ UNCHANGED <<loc, pc>>
    /\ UNCHANGED <<now, store, self>>

\* self.modify(pull__context__source=replace_source)
ContextPull(p) ==
    /\ pc[p] = "a_pull"
    /\ context' = PullSource(context, loc[p].rs[1])
    /\ self' = [self EXCEPT ![p] = Loaded(tags, last_tagged)]
    /\ pc' = [pc EXCEPT ![p] = "a_add"]
    /\ UNCHANGED <<now, tags, last_tagged, links, exists, count, loc, call,
                   prev, left>>

\* self.modify(add_to_set__context=context)
ContextAdd(p) ==
    /\ pc[p] = "a_add"
    /\ context' = AddToSet(context, loc[p].ctx)
    /\ self' = [self EXCEPT ![p] = Loaded(tags, last_tagged)]
    /\ pc' = [pc EXCEPT ![p] = "a_reload"]
    /\ UNCHANGED <<now, tags, last_tagged, links, exists, count, loc, call,
                   prev, left>>

\* return self.reload()
ContextReload(p) ==
    /\ pc[p] = "a_reload"
    /\ self' = [self EXCEPT ![p] = Loaded(tags, last_tagged)]
    /\ EndCall(p)
    /\ UNCHANGED <<now, store, prev, left>>

\* ------------------------------------------------------------------ system
\* One step of writer p in a tag operation, its arguments drawn from the
\* given sets when it begins a call.
TagStep(p, inputs, options, names) ==
    \/ \E ns \in inputs, o \in options : TagBegin(p, ns, o[1], o[2])
    \/ TagPull(p)
    \/ TagName(p)
    \/ LinkClean(p)
    \/ LinkInsert(p)
    \/ TagRefresh(p)
    \/ TagPush(p)
    \/ TagInc(p)
    \/ TagUpdate(p)
    \/ TagReload(p)
    \/ \E n \in names : UntagBegin(p, <<n>>)
    \/ UntagPull(p)
    \/ \E old \in names, new \in names : ChangeBegin(p, old, new)
    \/ ChangeRename(p)
    \/ ChangePull(p)
    \/ ChangeTouch(p)
    \/ ChangeReload(p)
    \/ ExpireBegin(p)
    \/ ExpireSave(p)

\* One step of writer p in a context operation.
ContextStep(p) ==
    \/ \E c \in ContextInputs, rs \in ReplaceSources : ContextBegin(p, c, rs)
    \/ ContextPull(p)
    \/ ContextAdd(p)
    \/ ContextReload(p)

\* Several feed tasks tag the same observable, their calls interleaved.
Init == Fresh /\ left = MaxConcOps

Next == \E p \in Procs : TagStep(p, ConcTagInputs, ConcTagOptions, ConcTagNames)

Spec == Init /\ [][Next]_vars

\* One writer alone, tagging: no call overlaps another.
SeqInit == Fresh /\ left = MaxOps

SeqNext ==
    TagStep(CHOOSE p \in Procs : \A q \in Procs : p <= q,
            TagInputs, TagOptions, TagNames)

SeqSpec == SeqInit /\ [][SeqNext]_vars

\* One writer alone, tagging and asking for recommended tags.
FindInit == Fresh /\ left = MaxOps

FindNext ==
    \/ TagStep(W, ConcTagInputs, ConcTagOptions, ConcTagNames)
    \/ FindTags(W)

FindSpec == FindInit /\ [][FindNext]_vars

\* The steps of a tag() call after its first.
TagCall(p) ==
    \/ TagPull(p)
    \/ TagName(p)
    \/ LinkClean(p)
    \/ LinkInsert(p)
    \/ TagRefresh(p)
    \/ TagPush(p)
    \/ TagInc(p)
    \/ TagUpdate(p)
    \/ TagReload(p)

\* One writer alone, calling tag() with one name of the catalog's chain and
\* cycles; a call that has begun keeps taking its steps (no step of tag()
\* waits for anything but the store's answer).
DeriveInputs == {<<A>>, <<B>>, <<C>>}

DeriveNext ==
    \/ \E ns \in DeriveInputs, o \in ConcTagOptions :
           TagBegin(W, ns, o[1], o[2])
    \/ TagCall(W)

DeriveSpec == SeqInit /\ [][DeriveNext]_vars /\ WF_vars(TagCall(W))

\* Several writers, some tagging the observable with B (which expires) and
\* some expiring its tags.
ExpireInputs == {<<B>>}

ExpireNext ==
    \E p \in Procs :
        \/ \E ns \in ExpireInputs, o \in ConcTagOptions :
               TagBegin(p, ns, o[1], o[2])
        \/ TagCall(p)
        \/ ExpireBegin(p)
        \/ ExpireSave(p)

ExpireSpec == SeqInit /\ [][ExpireNext]_vars

\* Several writers adding context.
ContextInit == Fresh /\ left = MaxOps

ContextNext == \E p \in Procs : ContextStep(p)

ContextSpec == ContextInit /\ [][ContextNext]_vars

\* One writer alone, adding context.
SeqContextNext == ContextStep(W)

SeqContextSpec == ContextInit /\ [][SeqContextNext]_vars

\* ================================================================== claims
\* "The call op of the lone writer has returned".
Returned(op) == pc[W] = "idle" /\ call[W].op = op

Entry(ts, n) == ts[FirstIdx(ts, n)]

CountName(ts, n) == Cardinality({i \in 1..Len(ts) : ts[i].name = n})

\* The catalog tag a raw name stands for.
TagOf(raw) == Canonical(exists, Clean(raw))

\* The second of two consecutive tag(o, [x]) calls (not strict) has returned.
TaggedTwice(x) ==
    /\ Returned("tag")
    /\ ~call[W].strict
    /\ call[W].names = <<x>>
    /\ prev[W].op = "tag"
    /\ prev[W].names = <<x>>

\* What C1 promises of the entry named n after the second call.
RefreshedOnce(n) ==
    /\ CountName(tags, n) = 1
    /\ Len(tags) = Len(call[W].pre)
    /\ HasName(call[W].pre, n)
    /\ Entry(tags, n).first_seen = Entry(call[W].pre, n).first_seen
    /\ Entry(tags, n).last_seen >= call[W].t0
    /\ Entry(tags, n).last_seen <= now
    /\ Entry(tags, n).fresh

\* C1 as stated: for any non-empty name x, two tag(o, [x]) calls in sequence
\* leave exactly one entry named x, refreshed by the second call (no entry
\* added, firstSeen kept, lastSeen at the second call, fresh).
C1_Original ==
    \A x \in RawNames : x # <<>> /\ TaggedTwice(x) => RefreshedOnce(x)

\* C1 amended: for any name x that is not blank, two tag(o, [x]) calls in
\* sequence leave exactly one entry named after the catalog tag x stands
\* for, refreshed by the second call.
C1_Idempotent ==
    \A x \in RawNames :
        Strip(x) # <<>> /\ TaggedTwice(x) => RefreshedOnce(TagOf(x))

\* C1's case: the second tag(o, [x]) has returned, for an alias x, and the
\* clock moved between the two calls.
C1_Witness ==
    /\ TaggedTwice(Legacy)
    /\ Entry(tags, B).last_seen > Entry(tags, B).first_seen

\* C2: in every reachable state, whatever the interleaving of the writers,
\* the tag list holds at most one entry per name.
C2_UniqueNames ==
    \A i, j \in 1..Len(tags) : tags[i].name = tags[j].name => i = j

\* A single-name tag(o, [x]) has returned, x standing for a tag t that
\* produces u, on an observable that held neither.
Derived(x, t, u) ==
    /\ Returned("tag")
    /\ call[W].names = <<x>>
    /\ Strip(x) # <<>>
    /\ t = TagOf(x)
    /\ u \in Range(Produces(t))
    /\ ~HasName(call[W].pre, t)
    /\ ~HasName(call[W].pre, u)

BothApplied(t, u) ==
    /\ HasName(tags, t) /\ HasName(tags, u)
    /\ Entry(tags, t).fresh /\ Entry(tags, u).fresh

\* C3 as stated: if A produces B and neither is on o, after tag(o, [A]) both
\* are present and fresh and B.firstSeen equals A.firstSeen.
C3_Original ==
    \A x \in RawNames, t \in TagNames, u \in TagNames :
        Derived(x, t, u) =>
            /\ BothApplied(t, u)
            /\ Entry(tags, u).first_seen = Entry(tags, t).first_seen

\* C3 amended: ... both are present and fresh, and B.firstSeen is not after
\* A.firstSeen, both within the call (B is pushed first, each push reads the
\* clock).
C3_Derivation ==
    \A x \in RawNames, t \in TagNames, u \in TagNames :
        Derived(x, t, u) =>
            /\ BothApplied(t, u)
            /\ call[W].t0 <= Entry(tags, u).first_seen
            /\ Entry(tags, u).first_seen <= Entry(tags, t).first_seen
            /\ Entry(tags, t).first_seen <= now

\* C3's case: tag(o, [A]) has returned and the clock moved between the push
\* of B and the push of A.
C3_Witness ==
    /\ Derived(A, A, B)
    /\ Entry(tags, B).first_seen < Entry(tags, A).first_seen

\* C4: B lists 'legacy' among its aliases; tag(o, ['legacy']) puts an entry
\* named B on o, never one named 'legacy', and no catalog tag 'legacy' is
\* created.
C4_Alias ==
    /\ Legacy \in Replaces(B)
    /\ ~HasName(tags, Legacy)
    /\ Legacy \notin exists
    /\ (Returned("tag") /\ Legacy \in Range(call[W].names)
            => HasName(tags, B))

\* C4's case: tag(o, ['legacy']) has returned on an observable without B.
C4_Witness ==
    /\ Returned("tag")
    /\ call[W].names = <<Legacy>>
    /\ ~HasName(call[W].pre, B)
    /\ HasName(tags, B)

\* An entry whose expiration is set and whose lastSeen + expiration is
\* before the instant t.
PastExpiry(e, t) == e.expiration # None /\ e.last_seen + e.expiration < t

\* C5: expireTags(o) sets fresh to false on an entry whose expiration is
\* set and whose lastSeen + expiration is before now; a later
\* tag(o, [name]) of the same name sets fresh back to true and resets
\* lastSeen to the time of that call, on the same entry.
C5_ExpireThenRefresh ==
    /\ Returned("expire_tags") =>
           \A i \in 1..Len(tags) : PastExpiry(tags[i], now) => ~tags[i].fresh
    /\ Returned("tag") =>
           \A n \in Range(call[W].names) :
               HasName(call[W].pre, n) /\ ~Entry(call[W].pre, n).fresh =>
                   /\ CountName(tags, n) = 1
                   /\ Entry(tags, n).fresh
                   /\ Entry(tags, n).last_seen >= call[W].t0
                   /\ Entry(tags, n).last_seen <= now
                   /\ Entry(tags, n).first_seen
                          = Entry(call[W].pre, n).first_seen
                   /\ Entry(tags, n).expiration
                          = Entry(call[W].pre, n).expiration

\* C5's case: tag(o, [name]) has returned on an entry that expireTags had
\* marked not fresh, and its lastSeen moved.
C5_Witness ==
    /\ Returned("tag")
    /\ prev[W].op = "expire_tags"
    /\ \E n \in Range(call[W].names) :
        /\ HasName(call[W].pre, n)
        /\ ~Entry(call[W].pre, n).fresh
        /\ Entry(tags, n).last_seen > Entry(call[W].pre, n).last_seen

\* The names a tag() call is to leave applied: for each name that is not
\* blank, its catalog tag and what that tag produces.
ApplicationSet(names) ==
    UNION {{TagOf(names[k])} \cup Range(Produces(TagOf(names[k]))) :
              k \in {j \in 1..Len(names) : Strip(names[j]) # <<>>}}

\* C6: after tag(o, names, strict=true) the names on o are exactly the
\* application set of names; every other tag is gone, and a tag that was on
\* o and whose name is in names keeps its entry (firstSeen unchanged) and is
\* refreshed.
C6_StrictRetag ==
    Returned("tag") /\ call[W].strict =>
        /\ Names(tags) = ApplicationSet(call[W].names)
        /\ \A n \in Names(call[W].pre) \cap Range(call[W].names) :
            /\ CountName(tags, n) = 1
            /\ Entry(tags, n).first_seen = Entry(call[W].pre, n).first_seen
            /\ Entry(tags, n).expiration = Entry(call[W].pre, n).expiration
            /\ Entry(tags, n).last_seen >= call[W].t0
            /\ Entry(tags, n).fresh

\* C6's case: a strict tag() has returned, having removed one tag and kept
\* (refreshed, later than it was first seen) another.
C6_Witness ==
    /\ Returned("tag")
    /\ call[W].strict
    /\ Names(call[W].pre) \ Names(tags) # {}
    /\ \E n \in Names(call[W].pre) \cap Range(call[W].names) :
        Entry(tags, n).last_seen > Entry(tags, n).first_seen

\* C7: after changeTag(o, old, new), old # new, o holds no entry named old.
\* When o held both, exactly one entry named new remains, its lastSeen at
\* the time of the call; when o held only old, that entry is renamed in
\* place, firstSeen (and every other field) preserved.
C7_ChangeTag ==
    Returned("change_tag") /\ call[W].old # call[W].new =>
        LET old == call[W].old
            new == call[W].new
            pre == call[W].pre
        IN /\ ~HasName(tags, old)
           /\ HasName(pre, old) /\ HasName(pre, new) =>
                  /\ CountName(tags, new) = 1
                  /\ Entry(tags, new).last_seen >= call[W].t0
                  /\ Entry(tags, new).last_seen <= now
                  /\ Entry(tags, new).first_seen = Entry(pre, new).first_seen
                  /\ Len(tags) = Len(pre) - 1
           /\ HasName(pre, old) /\ ~HasName(pre, new) =>
                  tags = [pre EXCEPT ![FirstIdx(pre, old)] =
                             [@ EXCEPT !.name = new]]

\* C7's case: changeTag(o, old, new) has returned on an observable that
\* held both names, and the entry named new was seen again.
C7_Witness ==
    /\ Returned("change_tag")
    /\ call[W].old # call[W].new
    /\ HasName(call[W].pre, call[W].old)
    /\ HasName(call[W].pre, call[W].new)
    /\ Entry(tags, call[W].new).last_seen
           > Entry(call[W].pre, call[W].new).last_seen

\* The fields of a context entry, whatever their order.
Fields(c) == Range(c)

\* C8: the context never holds two entries with the same fields; adding a
\* context equal, as a key-sorted map, to an entry already there (whatever
\* the key order of the argument) leaves the context unchanged.
C8_ContextDedup ==
    /\ [](\A i, j \in 1..Len(context) :
              Fields(context[i]) = Fields(context[j]) => i = j)
    /\ [][\A p \in Procs :
              /\ pc[p] = "a_add"
              /\ pc'[p] = "a_reload"
              /\ \E c \in Range(context) : Fields(c) = Fields(call[p].ctx)
              => context' = context]_vars

\* C8's case: add_context has stored nothing new for an argument whose keys
\* were not in sorted order and whose fields an entry already had.
C8_Witness ==
    \E p \in Procs :
        /\ pc[p] = "a_reload"
        /\ call[p].ctx # SortContext(call[p].ctx)
        /\ call[p].rs = <<>>
        /\ \E c \in Range(call[p].prectx) : Fields(c) = Fields(call[p].ctx)
        /\ context = call[p].prectx

\* A completed tag() call applied a tag that entity e declares.
Linked(p, e) ==
    /\ call[p].op = "tag"
    /\ \E k \in 1..Len(call[p].names) :
        /\ Strip(call[p].names[k]) # <<>>
        /\ TagOf(call[p].names[k]) \in EntityTags(e)

\* C9: after any number of tag() calls, sequential or concurrent, that
\* apply a tag an entity declares, there is exactly one 'Tagged' edge from
\* the observable to the entity, never two.
C9_OneTaggedEdge ==
    \A e \in Entities :
        /\ links[e] <= 1
        /\ (\A p \in Procs : pc[p] = "idle") /\ (\E p \in Procs : Linked(p, e))
               => links[e] = 1

\* C10: expireTags(o) sets fresh=false on exactly the entries whose
\* expiration is set and whose lastSeen + expiration is before now, and
\* changes nothing else; among the tag operations only tag() takes an entry
\* to fresh=true.
NumFresh(ts) == Cardinality({i \in 1..Len(ts) : ts[i].fresh})

C10_ExpireFrame ==
    /\ [](Returned("expire_tags") =>
            /\ Len(tags) = Len(call[W].pre)
            /\ \A i \in 1..Len(tags) :
                tags[i] = IF PastExpiry(call[W].pre[i], now)
                          THEN [call[W].pre[i] EXCEPT !.fresh = FALSE]
                          ELSE call[W].pre[i])
    /\ [][call[W].op # "tag" => NumFresh(tags') <= NumFresh(tags)]_vars

\* C10's case: expireTags(o) has returned, having marked one entry not
\* fresh and left another entry fresh.
C10_Witness ==
    /\ Returned("expire_tags")
    /\ \E i, j \in 1..Len(tags) :
        /\ call[W].pre[i].fresh /\ ~tags[i].fresh
        /\ tags[j].fresh

\* The recommended tags of a tag list: each name that an applied tag
\* produces and that is not applied, with the number of applied tags whose
\* produces holds it.
Recommended(ts) ==
    LET produced == UNION {Range(Produces(t)) : t \in Names(ts)}
    IN {<<n, Cardinality({t \in Names(ts) : n \in Range(Produces(t))})>> :
           n \in produced \ Names(ts)}

\* C11: findRecommendedTags(o) returns exactly the map from each name not
\* applied on o and produced by an applied tag to the number of applied tags
\* that produce it; no applied name is a key; o is left as it was.
C11_FindTags ==
    Returned("find_tags") /\ ~call[W].failed =>
        /\ call[W].result = Recommended(tags)
        /\ \A e \in call[W].result : ~HasName(tags, e[1])
        /\ tags = call[W].pre

C13_OwnExpiration ==
    Returned("tag") =>
        \A i \in 1..Len(tags) :
            ~HasName(call[W].pre, tags[i].name) =>
                tags[i].expiration =
                    IF call[W].exp # None THEN call[W].exp
                    ELSE DefaultExpiration(tags[i].name)

\* The greatest last_seen of a tag list that is not empty.
MaxLastSeen(ts) ==
    CHOOSE m \in {ts[i].last_seen : i \in 1..Len(ts)} :
        \A i \in 1..Len(ts) : ts[i].last_seen <= m

\* A name of the call was applied: it does not strip to the empty string.
AppliedSome(names) == \E k \in 1..Len(names) : Strip(names[k]) # <<>>

\* Only a tag() call that applied a name writes last_tagged.
OnlyTagWrites ==
    last_tagged' # last_tagged =>
        /\ call[W].op = "tag"
        /\ pc[W] = "t_update"
        /\ AppliedSome(call[W].names)

\* C14 as stated: after any sequence of calls, when the indicator has a tag
\* and a non-null lastTagged, lastTagged equals the maximum lastSeen over
\* its tags; tag() sets lastTagged only when a name was applied.
C14_Original ==
    /\ [](pc[W] = "idle" /\ tags # <<>> /\ last_tagged # None =>
              last_tagged = MaxLastSeen(tags))
    /\ [][OnlyTagWrites]_vars

\* C14 amended: tag() sets lastTagged, to the time of its last update, only
\* when a name was applied, and no other operation writes it; when that
\* call returns, lastTagged lies within the call and is not before the
\* lastSeen of any tag of the indicator.
C14_LastTagged ==
    /\ [](Returned("tag") /\ AppliedSome(call[W].names) =>
              /\ last_tagged # None
              /\ call[W].t0 <= last_tagged /\ last_tagged <= now
              /\ \A i \in 1..Len(tags) : tags[i].last_seen <= last_tagged)
    /\ [][OnlyTagWrites]_vars

\* C14's case: a tag() call that applied a name has returned, and the clock
\* moved between its last refresh and its update of lastTagged.
C14_Witness ==
    /\ Returned("tag")
    /\ AppliedSome(call[W].names)
    /\ tags # <<>>
    /\ last_tagged > MaxLastSeen(tags)

\* C15: whatever the derivation graph (the chain A, B, C; the cycle B, C;
\* C producing itself), tag(o, [x]) terminates, and the names it applies are
\* exactly the tag x stands for and the direct members of its produces: the
\* names on o are those it had and these, one entry each, and an entry of
\* any other name (one reached only through two hops too) is left as it was.
C15_SingleLevel ==
    /\ [](Returned("tag") /\ ~call[W].strict =>
              LET applied == ApplicationSet(call[W].names)
              IN /\ Names(tags) = Names(call[W].pre) \cup applied
                 /\ \A n \in applied :
                        /\ CountName(tags, n) = 1
                        /\ Entry(tags, n).last_seen >= call[W].t0
                 /\ \A n \in Names(call[W].pre) \ applied :
                        Entry(tags, n) = Entry(call[W].pre, n))
    /\ (pc[W] # "idle" ~> pc[W] = "idle")

\* C15's case: tag(o, [A]) had left C, two hops from A, off the observable;
\* then tag(o, [C]), C in a cycle with B and with itself, has returned.
C15_Witness ==
    /\ Returned("tag")
    /\ call[W].names = <<C>>
    /\ prev[W].op = "tag"
    /\ prev[W].names = <<A>>
    /\ Names(call[W].pre) = {A, B}
    /\ Names(tags) = {A, B, C}

\* The lone writer's add_context, called with a replace_source, has returned.
ReplacedWith(rs) ==
    /\ Returned("add_context")
    /\ ~call[W].failed
    /\ call[W].rs = rs

\* What C16 promises for the source s: the context holds the new entry, no
\* other entry of source s, and the entries of other sources as they were.
OnlyNewOf(s) ==
    LET isNew(c) == Fields(c) = Fields(call[W].ctx)
        others(cs) ==
            SelectSeq(cs, LAMBDA c : Get(c, "source") # s /\ ~isNew(c))
    IN /\ \E c \in Range(context) : isNew(c)
       /\ \A c \in Range(context) : Get(c, "source") = s => isNew(c)
       /\ others(context) = others(call[W].prectx)

C17_TwoUpdates ==
    [][/\ ~(/\ Range(context) \ Range(context') # {}
            /\ Range(context') \ Range(context) # {})
       /\ \A p \in Procs :
            /\ pc[p] = "a_pull" /\ pc'[p] = "a_add" =>
                   /\ Range(context') \subseteq Range(context)
                   /\ \A c \in Range(context') :
                          Get(c, "source") # call[p].rs[1]
            /\ pc[p] = "a_add" /\ pc'[p] = "a_reload" =>
                   /\ Range(context) \subseteq Range(context')
                   /\ \E c \in Range(context') :
                          Fields(c) = Fields(call[p].ctx)]_vars

\* C17's case: a writer is between its pull and its add, the stored
\* context holding neither the entries of the replaced source that were
\* there nor the new entry, while another writer is about to reload the
\* document.
C17_Witness ==
    \E p \in Procs, q \in Procs :
        /\ p # q
        /\ pc[p] = "a_add"
        /\ call[p].rs # <<>>
        /\ \E c \in Range(call[p].prectx) : Get(c, "source") = call[p].rs[1]
        /\ \A c \in Range(context) :
               /\ Get(c, "source") # call[p].rs[1]
               /\ Fields(c) # Fields(call[p].ctx)
        /\ pc[q] = "a_reload"

\* C18: when expireTags(o) and a tag() call refreshing the same tag overlap,
\* the refresh is not lost: once the calls have completed, no entry is left
\* with fresh = false while its lastSeen + expiration is still in the future.
C18_RefreshKept ==
    (\A p \in Procs : pc[p] = "idle") =>
        \A i \in 1..Len(tags) :
            ~tags[i].fresh =>
                ~(/\ tags[i].expiration # None
                  /\ tags[i].last_seen + tags[i].expiration > now)

\* C19: in every state reached by tag, untag, changeTag and expireTags
\* calls, an entry with fresh = false has a non-null expiration and a
\* lastSeen + expiration before the current time: no operation advances
\* lastSeen of an entry and leaves it fresh = false.
C19_StaleIsExpired ==
    \A i \in 1..Len(tags) : ~tags[i].fresh => PastExpiry(tags[i], now)

\* The entries of a tag list named neither a nor b.
Besides(ts, a, b) == SelectSeq(ts, LAMBDA e : e.name # a /\ e.name # b)

\* C20: changeTag never drops a classification: when o held an entry named
\* old, after changeTag(o, old, new) it holds an entry named new; when old
\* and new are the same name the tags are unchanged; every entry named
\* neither old nor new is unchanged.
C20_ChangeKeeps ==
    Returned("change_tag") /\ HasName(call[W].pre, call[W].old) =>
        /\ HasName(tags, call[W].new)
        /\ call[W].old = call[W].new => tags = call[W].pre
        /\ Besides(tags, call[W].old, call[W].new)
               = Besides(call[W].pre, call[W].old, call[W].new)

====
